---- MODULE Spec2Model ----
(***************************************************************************)
(* A model of four primitives of h3ron:                                    *)
(*   - h3-ndarray/src/algo.rs: find_boxes_containing_data and              *)
(*     nearest_h3_resolution                                               *)
(*   - h3ron-polars/src/spatial_index/packed_hilbert_rtree.rs:             *)
(*     PackedHilbertRTreeIndex (build, range query, distance query)        *)
(*   - h3ron-graph/src/graph/longedge.rs: LongEdge                         *)
(* Each primitive is a pure computation over caller-supplied data. Each    *)
(* has its own specification: Init draws the input from a bounded set and  *)
(* the actions apply the operation to it.                                  *)
(***************************************************************************)
EXTENDS Integers, Sequences, FiniteSets, TLC

VARIABLES
    \* ---- box clustering (algo.rs) ----
    grid,           \* the ArrayView2 passed as `a`
    nodata_value,   \* the sentinel
    boxes,          \* the returned Vec<Rect<usize>>
    pcBoxes,        \* "ready" before the call, "done" after it
    \* ---- resolution matcher (algo.rs) ----
    shape,          \* [usize; 2]
    area_bbox,      \* area_rect(&bbox_array)
    areas,          \* area of the center cell at resolutions 0..=16
    res_result,     \* per search mode: None, or Some(Result<u8, Error>) once
                    \* nearest_h3_resolution has returned for that mode
    pcRes,
    \* ---- long edge (longedge.rs) ----
    h3edges,        \* the Vec<H3DirectedEdge> given to try_from
    longedge,       \* Result<LongEdge, Error>
    le_call,        \* the last call on the LongEdge: [op, arg, ret]
    pcLE,
    \* ---- packed hilbert r-tree (packed_hilbert_rtree.rs) ----
    chunked_array,  \* the column the index is built over
    rtree,          \* Result<PackedHilbertRTreeIndex, Error>
    query,          \* the last query
    mask,           \* its answer
    pcIdx

vars == <<grid, nodata_value, boxes, pcBoxes,
          shape, area_bbox, areas, res_result, pcRes,
          h3edges, longedge, le_call, pcLE,
          chunked_array, rtree, query, mask, pcIdx>>

boxVars == <<grid, nodata_value, boxes, pcBoxes>>
resVars == <<shape, area_bbox, areas, res_result, pcRes>>
leVars  == <<h3edges, longedge, le_call, pcLE>>
idxVars == <<chunked_array, rtree, query, mask, pcIdx>>

Min(a, b) == IF a <= b THEN a ELSE b
Max(a, b) == IF a >= b THEN a ELSE b

\* Option<T>: None is the empty sequence, Some(v) the sequence of v alone.
None == <<>>
Some(v) == <<v>>
IsSome(o) == Len(o) = 1
Unwrap(o) == o[1]

\* Result<T, E>
Ok(v) == [ok |-> TRUE, val |-> <<v>>, err |-> ""]
Err(e) == [ok |-> FALSE, val |-> <<>>, err |-> e]

\* the concatenation of a sequence of sequences
RECURSIVE Flatten(_)
Flatten(ss) ==
    IF ss = <<>> THEN <<>> ELSE Head(ss) \o Flatten(Tail(ss))

(***************************************************************************)
(* Components that are not in use by a specification stay idle.            *)
(***************************************************************************)
BoxesIdle ==
    /\ grid = [shape |-> <<0, 0>>, at |-> <<>>]
    /\ nodata_value = 0
    /\ boxes = <<>>
    /\ pcBoxes = "idle"

ResIdle ==
    /\ shape = <<0, 0>>
    /\ area_bbox = 0
    /\ areas = <<>>
    /\ res_result = <<>>
    /\ pcRes = "idle"

LEIdle ==
    /\ h3edges = <<>>
    /\ longedge = Err("none")
    /\ le_call = [op |-> "none", arg |-> {}, ret |-> <<>>]
    /\ pcLE = "idle"

IdxIdle ==
    /\ chunked_array = <<>>
    /\ rtree = Err("none")
    /\ query = [kind |-> "none"]
    /\ mask = <<>>
    /\ pcIdx = "idle"

(***************************************************************************)
(* Box clustering: h3-ndarray/src/algo.rs                                  *)
(***************************************************************************)
MaxRows == 3
MaxCols == 3
Values == {0, 1}

\* An ArrayView2<T>: its shape and its elements, indexed from 0.
ArrayView(n, m, at) == [shape |-> <<n, m>>, at |-> at]

\* the elements of an n x m view, in every way they can be filled
Elements(n, m) == [(0 .. n - 1) \X (0 .. m - 1) -> Values]

\* a.slice(s![r0..=r1, c0..=c1])
Slice(a, r0, r1, c0, c1) ==
    [shape |-> <<r1 - r0 + 1, c1 - c0 + 1>>,
     at |-> [p \in (0 .. r1 - r0) \X (0 .. c1 - c0) |->
                a.at[<<p[1] + r0, p[2] + c0>>]]]

\* one item of a.axis_iter(Axis(axis)): the elements of lane `pos`
Lane(a, axis, pos) ==
    IF axis = 0
    THEN { a.at[<<pos, k>>] : k \in 0 .. a.shape[2] - 1 }
    ELSE { a.at[<<k, pos>>] : k \in 0 .. a.shape[1] - 1 }

\* the for loop of find_continuous_chunks_along_axis, from position r0pos on;
\* yields <<chunks, current_chunk_start>> as they are when the loop ends
RECURSIVE ChunksLoop(_, _, _, _, _, _)
ChunksLoop(a, axis, nodata, r0pos, current_chunk_start, chunks) ==
    IF r0pos >= a.shape[axis + 1]
    THEN <<chunks, current_chunk_start>>
    ELSE IF \E v \in Lane(a, axis, r0pos) : v /= nodata
         THEN ChunksLoop(a, axis, nodata, r0pos + 1,
                         IF IsSome(current_chunk_start)
                         THEN current_chunk_start ELSE Some(r0pos),
                         chunks)
         ELSE IF IsSome(current_chunk_start)
              THEN ChunksLoop(a, axis, nodata, r0pos + 1, None,
                              Append(chunks,
                                     <<Unwrap(current_chunk_start), r0pos - 1>>))
              ELSE ChunksLoop(a, axis, nodata, r0pos + 1, None, chunks)

\* a plausible slip: the chunk still open when the loop ends is not pushed
chunks_without_open_tail(a, axis, nodata) ==
    ChunksLoop(a, axis, nodata, 0, None, <<>>)[1]

find_continuous_chunks_along_axis(a, axis, nodata) ==
    LET end == ChunksLoop(a, axis, nodata, 0, None, <<>>)
    IN  IF IsSome(end[2])
        THEN Append(end[1], <<Unwrap(end[2]), a.shape[axis + 1] - 1>>)
        ELSE end[1]

Coordinate(x, y) == [x |-> x, y |-> y]

\* geo_types Rect::new orders the two corners into min and max
Rect_new(c1, c2) ==
    [min |-> Coordinate(Min(c1.x, c2.x), Min(c1.y, c2.y)),
     max |-> Coordinate(Max(c1.x, c2.x), Max(c1.y, c2.y))]

\* the body of the outer loop: the boxes of one raw chunk along axis 0;
\* row_offset is what is added to the rows of the third pass
BoxesOfChunk(a, nodata, chunk_0raw_indexes, row_offset) ==
    LET sv == Slice(a, chunk_0raw_indexes[1], chunk_0raw_indexes[2],
                    0, a.shape[2] - 1)
        OfCols(chunks_1raw_indexes) ==
            LET sv2 == Slice(sv, 0, chunk_0raw_indexes[2] - chunk_0raw_indexes[1],
                             chunks_1raw_indexes[1], chunks_1raw_indexes[2])
                OfRows(chunks_0_indexes) ==
                    << Rect_new(
                         Coordinate(chunks_0_indexes[1] + row_offset,
                                    chunks_1raw_indexes[1]),
                         Coordinate(chunks_0_indexes[2] + row_offset,
                                    chunks_1raw_indexes[2])) >>
                chunks_0 == find_continuous_chunks_along_axis(sv2, 0, nodata)
            IN  Flatten([i \in 1 .. Len(chunks_0) |-> OfRows(chunks_0[i])])
        chunks_1 == find_continuous_chunks_along_axis(sv, 1, nodata)
    IN  Flatten([i \in 1 .. Len(chunks_1) |-> OfCols(chunks_1[i])])

\* a plausible slip: the rows of the third pass, which are relative to the
\* sub-view, are pushed without the offset of the raw chunk
find_boxes_without_row_offset(a, nodata) ==
    LET chunks_0raw == find_continuous_chunks_along_axis(a, 0, nodata)
    IN  Flatten([i \in 1 .. Len(chunks_0raw) |->
                    BoxesOfChunk(a, nodata, chunks_0raw[i], 0)])

find_boxes_containing_data(a, nodata) ==
    LET chunks_0raw == find_continuous_chunks_along_axis(a, 0, nodata)
    IN  Flatten([i \in 1 .. Len(chunks_0raw) |->
                    BoxesOfChunk(a, nodata, chunks_0raw[i], chunks_0raw[i][1])])

InitBoxes ==
    /\ \E n \in 0 .. MaxRows, m \in 0 .. MaxCols :
          \E at \in Elements(n, m) : grid = ArrayView(n, m, at)
    /\ nodata_value \in Values
    /\ boxes = <<>>
    /\ pcBoxes = "ready"
    /\ ResIdle /\ LEIdle /\ IdxIdle

FindBoxes ==
    /\ pcBoxes = "ready"
    /\ boxes' = find_boxes_containing_data(grid, nodata_value)
    /\ pcBoxes' = "done"
    /\ UNCHANGED <<grid, nodata_value, resVars, leVars, idxVars>>

NextBoxes == FindBoxes

SpecBoxes == InitBoxes /\ [][NextBoxes]_vars

\* the cells of a rect: x is the row, y the column, both ends included
InRect(rect, r, c) ==
    /\ rect.min.x <= r /\ r <= rect.max.x
    /\ rect.min.y <= c /\ c <= rect.max.y

GridCells == (0 .. grid.shape[1] - 1) \X (0 .. grid.shape[2] - 1)

HasData(p) == grid.at[p] /= nodata_value

BoxSet == { boxes[i] : i \in 1 .. Len(boxes) }

\* C1: after find_boxes_containing_data, every cell that differs from the
\* sentinel lies in at least one returned rect, so clearing the rects
\* leaves nothing but the sentinel.
BoxesCoverData ==
    pcBoxes = "done" =>
        \A p \in GridCells :
            HasData(p) => \E rect \in BoxSet : InRect(rect, p[1], p[2])

\* a grid whose data falls into more than one rect, one of them not
\* starting at row 0, has been clustered
BoxesCoverDataWitness ==
    /\ pcBoxes = "done"
    /\ Len(boxes) >= 2
    /\ \E rect \in BoxSet : rect.min.x > 0
    /\ \E p \in GridCells : ~HasData(p)

\* C10: every returned rect lies inside the grid, has min <= max on both
\* axes and holds a cell that differs from the sentinel; a grid without
\* data yields no rect.
BoxesWellFormed ==
    pcBoxes = "done" =>
        /\ \A rect \in BoxSet :
              /\ rect.min.x <= rect.max.x /\ rect.min.y <= rect.max.y
              /\ 0 <= rect.min.x /\ rect.max.x < grid.shape[1]
              /\ 0 <= rect.min.y /\ rect.max.y < grid.shape[2]
              /\ \E p \in GridCells : HasData(p) /\ InRect(rect, p[1], p[2])
        /\ (\A p \in GridCells : ~HasData(p)) => boxes = <<>>

\* a rect that starts below the first row of its raw row chunk (the row
\* above it has data in another column) has been returned
BoxesWellFormedWitness ==
    /\ pcBoxes = "done"
    /\ \E rect \in BoxSet :
          /\ rect.min.x > 0
          /\ \E p \in GridCells : HasData(p) /\ p[1] = rect.min.x - 1
    /\ \E rect \in BoxSet : rect.max.y < grid.shape[2] - 1

(***************************************************************************)
(* Resolution matcher: h3-ndarray/src/algo.rs                              *)
(*                                                                         *)
(* The transform, the sphere geometry and the h3 library are inputs: the   *)
(* call is given the area of the bounding box of the array (area_rect) and *)
(* the area of the cell at the center of the array at each resolution      *)
(* (area_linearring), strictly decreasing with the resolution. f64         *)
(* arithmetic is modelled as exact arithmetic: with n = shape[0]*shape[1], *)
(* every area of the loop is held in units of 1/n, so that area_pixel =    *)
(* area_bbox / n is the integer area_bbox and a cell area a is a * n.      *)
(***************************************************************************)
MaxRes == 16
MaxDim == 2
MaxBBoxArea == 20
MaxCellArea == 17

SearchModes == {"SmallestAreaDifference", "IndexAreaSmallerThanPixelArea"}

\* the strictly decreasing sequences of length n over 0 .. hi
RECURSIVE DecreasingSeqs(_, _)
DecreasingSeqs(n, hi) ==
    IF n = 0 THEN { <<>> }
    ELSE UNION { { <<v>> \o s : s \in DecreasingSeqs(n - 1, v - 1) } :
                 v \in (n - 1) .. hi }

CellAreaSeqs == DecreasingSeqs(MaxRes + 1, MaxCellArea)

\* line 95, as if `<` had been written for `<=`
IndexAreaStrictlySmaller(area_h3_index, area_pixel) == area_h3_index < area_pixel

\* the stopping condition of IndexAreaSmallerThanPixelArea
IndexAreaSmaller(area_h3_index, area_pixel) == area_h3_index <= area_pixel

\* line 108, as if the current resolution were returned
CurrentResolution(h3_res) == h3_res

\* what SmallestAreaDifference returns once the difference has grown
PreviousResolution(h3_res) == h3_res - 1

\* the for loop from h3_res on; yields nearest_h3_res as it is after the loop
RECURSIVE ResolutionLoop(_, _, _, _, _, _)
ResolutionLoop(h3_res, nearest_h3_res, area_difference, area_pixel, cell_area, mode) ==
    IF h3_res > MaxRes THEN nearest_h3_res
    ELSE
      LET area_h3_index == cell_area[h3_res + 1] IN
      IF mode = "IndexAreaSmallerThanPixelArea"
      THEN IF IndexAreaSmaller(area_h3_index, area_pixel)
           THEN h3_res
           ELSE ResolutionLoop(h3_res + 1, nearest_h3_res, area_difference,
                               area_pixel, cell_area, mode)
      ELSE
        LET new_area_difference ==
                IF area_h3_index > area_pixel
                THEN area_h3_index - area_pixel
                ELSE area_pixel - area_h3_index
        IN  IF IsSome(area_difference)
            THEN IF Unwrap(area_difference) < new_area_difference
                 THEN PreviousResolution(h3_res)
                 ELSE ResolutionLoop(h3_res + 1, nearest_h3_res,
                                     Some(new_area_difference),
                                     area_pixel, cell_area, mode)
            ELSE ResolutionLoop(h3_res + 1, nearest_h3_res,
                                Some(new_area_difference),
                                area_pixel, cell_area, mode)

\* line 72, as if only an array without rows and without columns were empty
IsEmptyShapeBothZero(shp) == shp[1] = 0 /\ shp[2] = 0

\* the array has no element
IsEmptyShape(shp) == shp[1] = 0 \/ shp[2] = 0

nearest_h3_resolution(shp, bbox_area, cell_areas, mode) ==
    IF IsEmptyShape(shp)
    THEN Err("EmptyArray")
    ELSE LET n == shp[1] * shp[2]
             area_pixel == bbox_area                       \* in units of 1/n
             cell_area == [i \in 1 .. Len(cell_areas) |-> cell_areas[i] * n]
         IN  Ok(ResolutionLoop(0, 0, None, area_pixel, cell_area, mode))

InitRes ==
    /\ shape \in (0 .. MaxDim) \X (0 .. MaxDim)
    /\ area_bbox \in 0 .. MaxBBoxArea
    /\ areas \in CellAreaSeqs
    /\ res_result = [m \in SearchModes |-> None]
    /\ pcRes = "ready"
    /\ BoxesIdle /\ LEIdle /\ IdxIdle

NearestH3Resolution(mode) ==
    /\ pcRes = "ready"
    /\ res_result[mode] = None
    /\ res_result' = [res_result EXCEPT
                        ![mode] = Some(nearest_h3_resolution(shape, area_bbox, areas, mode))]
    /\ UNCHANGED <<shape, area_bbox, areas, pcRes, boxVars, leVars, idxVars>>

NextRes == \E mode \in SearchModes : NearestH3Resolution(mode)

SpecRes == InitRes /\ [][NextRes]_vars

\* the call in `mode` has returned Ok
Returned(mode) ==
    /\ pcRes = "ready"
    /\ IsSome(res_result[mode])
    /\ Unwrap(res_result[mode]).ok

Resolution(mode) == Unwrap(res_result[mode]).val[1]

Resolutions == 0 .. MaxRes

\* cell area and pixel area of the state, compared exactly
CellAreaAt(r) == areas[r + 1] * shape[1] * shape[2]
PixelArea == area_bbox
AreaDifference(r) ==
    IF CellAreaAt(r) > PixelArea THEN CellAreaAt(r) - PixelArea
    ELSE PixelArea - CellAreaAt(r)

\* the scan of SmallestAreaDifference has returned a resolution of smallest
\* difference
SmallestDifferenceFound ==
    /\ Returned("SmallestAreaDifference")
    /\ \A r \in Resolutions :
          AreaDifference(Resolution("SmallestAreaDifference")) <= AreaDifference(r)

\* C6, as claimed: IndexAreaSmallerThanPixelArea never returns a finer
\* (greater) resolution than SmallestAreaDifference does for the same input.
\* Stated for the inputs on which SmallestAreaDifference returns a resolution
\* of smallest difference, so that a violation owes nothing to the scans that
\* end without one.
IndexAreaModeNeverFiner ==
    (Returned("IndexAreaSmallerThanPixelArea") /\ SmallestDifferenceFound)
        => Resolution("IndexAreaSmallerThanPixelArea")
             <= Resolution("SmallestAreaDifference")

\* C6, amended: for the same input IndexAreaSmallerThanPixelArea never
\* returns a coarser (smaller) resolution than SmallestAreaDifference does.
IndexAreaModeNeverCoarser ==
    (Returned("IndexAreaSmallerThanPixelArea") /\ Returned("SmallestAreaDifference"))
        => Resolution("IndexAreaSmallerThanPixelArea")
             >= Resolution("SmallestAreaDifference")

\* both modes have returned, the cell of the first mode being one finer
IndexAreaModeNeverCoarserWitness ==
    /\ Returned("IndexAreaSmallerThanPixelArea")
    /\ Returned("SmallestAreaDifference")
    /\ Resolution("SmallestAreaDifference") >= 1
    /\ Resolution("IndexAreaSmallerThanPixelArea")
         = Resolution("SmallestAreaDifference") + 1

\* C7: in SmallestAreaDifference mode no resolution of 0..16 has a strictly
\* smaller |cell area - pixel area| than the returned one.
SmallestDifferenceIsMinimal ==
    Returned("SmallestAreaDifference") =>
        \A r \in Resolutions :
            AreaDifference(Resolution("SmallestAreaDifference")) <= AreaDifference(r)

EmptyArrayIffZeroDimension ==
    \A mode \in SearchModes :
        IsSome(res_result[mode]) =>
            LET ret == Unwrap(res_result[mode]) IN
            /\ ret = Err("EmptyArray") <=> (shape[1] = 0 \/ shape[2] = 0)
            /\ (shape[1] > 0 /\ shape[2] > 0) =>
                  /\ ret.ok
                  /\ Len(ret.val) = 1
                  /\ ret.val[1] \in Resolutions

\* both modes have refused an array with rows but without columns, although
\* the bounding box and a cell would have matched
EmptyArrayIffZeroDimensionWitness ==
    /\ shape[1] > 0
    /\ shape[2] = 0
    /\ area_bbox > 0
    /\ \A mode \in SearchModes :
          /\ IsSome(res_result[mode])
          /\ Unwrap(res_result[mode]) = Err("EmptyArray")

(***************************************************************************)
(* Long edge: h3ron-graph/src/graph/longedge.rs                            *)
(*                                                                         *)
(* The h3 grid is an input: NumCells cells on a ring, each with a directed *)
(* edge to its two neighbours. A directed edge is the pair of what its     *)
(* origin_cell() and destination_cell() decode to, H3_NULL standing for an *)
(* endpoint that does not decode.                                          *)
(***************************************************************************)
NumCells == 3
MaxEdges == 3

H3_NULL == 0
Cells == 1 .. NumCells

Neighbors(c) == { (c % NumCells) + 1, ((c + NumCells - 2) % NumCells) + 1 } \ {c}

\* the H3DirectedEdge values: the edges of the grid, for each cell an edge
\* whose destination does not decode, and an edge that is no edge at all
H3DirectedEdges ==
    UNION { { <<o, d>> : d \in Neighbors(o) \cup {H3_NULL} } : o \in Cells }
        \cup { <<H3_NULL, H3_NULL>> }

\* H3DirectedEdge::origin_cell / destination_cell
origin_cell(h3edge) ==
    IF h3edge[1] = H3_NULL THEN Err("EdgeEndpointInvalid") ELSE Ok(h3edge[1])
destination_cell(h3edge) ==
    IF h3edge[2] = H3_NULL THEN Err("EdgeEndpointInvalid") ELSE Ok(h3edge[2])

\* line 22 left out: the path starts at the first destination
cell_path_without_origin(h3edge_path) ==
    LET failed == { i \in 1 .. Len(h3edge_path) :
                        ~destination_cell(h3edge_path[i]).ok }
    IN  IF failed /= {} THEN Err("EdgeEndpointInvalid")
        ELSE Ok([i \in 1 .. Len(h3edge_path) |->
                    destination_cell(h3edge_path[i]).val[1]])

\* the cells of the path, or the first error met on the way: the origin of
\* the first edge, its destination, then the destination of every other edge
h3edge_path_to_h3cell_path(h3edge_path) ==
    IF h3edge_path = <<>> THEN Ok(<<>>)
    ELSE LET first == Head(h3edge_path)
             failed == { i \in 1 .. Len(h3edge_path) :
                            ~destination_cell(h3edge_path[i]).ok }
         IN  IF ~origin_cell(first).ok THEN origin_cell(first)
             ELSE IF failed /= {}
                  THEN destination_cell(
                           h3edge_path[CHOOSE i \in failed : \A j \in failed : i <= j])
                  ELSE Ok(<<origin_cell(first).val[1]>> \o
                          [i \in 1 .. Len(h3edge_path) |->
                              destination_cell(h3edge_path[i]).val[1]])

\* line 81 left out
Vec_without_dedup(v) == v

\* Vec::dedup: consecutive repeated elements are removed
RECURSIVE Vec_dedup(_)
Vec_dedup(v) ==
    IF Len(v) <= 1 THEN v
    ELSE IF v[1] = v[2] THEN Vec_dedup(Tail(v))
         ELSE <<v[1]>> \o Vec_dedup(Tail(v))

\* IndexBlock<H3DirectedEdge>: the number of indexes and their encoded form,
\* here the first index followed by the difference of each index to the one
\* before it
EdgeId(h3edge) == h3edge[1] * (NumCells + 1) + h3edge[2]
EdgeOfId(id) == <<id \div (NumCells + 1), id % (NumCells + 1)>>

IndexBlock_from(v) ==
    [num_indexes |-> Len(v),
     block_data |-> [i \in 1 .. Len(v) |->
                        IF i = 1 THEN EdgeId(v[1])
                        ELSE EdgeId(v[i]) - EdgeId(v[i - 1])]]

IndexBlock_len(block) == block.num_indexes

RECURSIVE PrefixSum(_, _)
PrefixSum(data, i) == IF i = 0 THEN 0 ELSE data[i] + PrefixSum(data, i - 1)

IndexBlock_iter_uncompressed(block) ==
    Ok([i \in 1 .. Len(block.block_data) |-> EdgeOfId(PrefixSum(block.block_data, i))])

\* H3Treemap<H3Cell>: a set of cells
H3Treemap_collect(cells) == { cells[i] : i \in 1 .. Len(cells) }
H3Treemap_is_disjoint(a, b) == a \cap b = {}

\* TryFrom<Vec<H3DirectedEdge>> for LongEdge
try_from(edges) ==
    LET deduped == Vec_dedup(edges) IN
    IF Len(deduped) >= 2
    THEN LET cell_path == h3edge_path_to_h3cell_path(deduped) IN
         IF ~cell_path.ok THEN Err(cell_path.err)
         ELSE Ok([in_edge |-> deduped[1],
                  out_edge |-> deduped[Len(deduped)],
                  edge_path |-> IndexBlock_from(deduped),
                  cell_lookup |-> H3Treemap_collect(cell_path.val[1])])
    ELSE Err("InsufficientNumberOfEdges")

is_disjoint(self, treemap) == H3Treemap_is_disjoint(self.cell_lookup, treemap)

\* (self.edge_path.len() as usize).saturating_sub(1)
h3edges_len(self) == Max(IndexBlock_len(self.edge_path) - 1, 0)

h3edge_path(self) == IndexBlock_iter_uncompressed(self.edge_path)

\* LongEdge::origin_cell / LongEdge::destination_cell
LongEdge_origin_cell(self) == origin_cell(self.in_edge)
LongEdge_destination_cell(self) == destination_cell(self.out_edge)

InitLE ==
    /\ \E n \in 0 .. MaxEdges : h3edges \in [1 .. n -> H3DirectedEdges]
    /\ longedge = Err("none")
    /\ le_call = [op |-> "none", arg |-> {}, ret |-> <<>>]
    /\ pcLE = "ready"
    /\ BoxesIdle /\ ResIdle /\ IdxIdle

TryFrom ==
    /\ pcLE = "ready"
    /\ longedge' = try_from(h3edges)
    /\ pcLE' = "done"
    /\ UNCHANGED <<h3edges, le_call, boxVars, resVars, idxVars>>

IsDisjoint(treemap) ==
    /\ pcLE = "done" /\ longedge.ok
    /\ pcLE' = "called"
    /\ le_call' = [op |-> "is_disjoint", arg |-> treemap,
                   ret |-> is_disjoint(longedge.val[1], treemap)]
    /\ UNCHANGED <<h3edges, longedge, boxVars, resVars, idxVars>>

H3EdgesLen ==
    /\ pcLE = "done" /\ longedge.ok
    /\ pcLE' = "called"
    /\ le_call' = [op |-> "h3edges_len", arg |-> {},
                   ret |-> h3edges_len(longedge.val[1])]
    /\ UNCHANGED <<h3edges, longedge, boxVars, resVars, idxVars>>

H3EdgePath ==
    /\ pcLE = "done" /\ longedge.ok
    /\ pcLE' = "called"
    /\ le_call' = [op |-> "h3edge_path", arg |-> {},
                   ret |-> h3edge_path(longedge.val[1])]
    /\ UNCHANGED <<h3edges, longedge, boxVars, resVars, idxVars>>

\* A LongEdge is immutable: what a call answers does not depend on the calls
\* before it, so each run makes one.
NextLE ==
    \/ TryFrom
    \/ \E treemap \in SUBSET Cells : IsDisjoint(treemap)
    \/ H3EdgesLen
    \/ H3EdgePath

SpecLE == InitLE /\ [][NextLE]_vars

\* try_from has returned
Constructed == pcLE \in {"done", "called"}

\* the number of edges that remain of the input once consecutive identical
\* edges are removed: one for each position that starts a run
RemainingEdges ==
    Cardinality({ i \in 1 .. Len(h3edges) : i = 1 \/ h3edges[i] /= h3edges[i - 1] })

AllEndpointsDecode ==
    \A i \in 1 .. Len(h3edges) : h3edges[i][1] /= H3_NULL /\ h3edges[i][2] /= H3_NULL

\* C3: h3edges_len() of a constructed LongEdge is the number of edges that
\* decompressing its edge path yields, which is the number of edges of the
\* deduplicated input.
\* Stated for the inputs that are a continuous path of decodable edges.
EdgesLenIsEdgeCount ==
    LET path == h3edge_path(longedge.val[1]).val[1] IN
    (/\ le_call.op = "h3edges_len"
     /\ AllEndpointsDecode
     /\ \A i \in 1 .. Len(path) - 1 : path[i][2] = path[i + 1][1]) =>
        /\ le_call.ret = Len(path)
        /\ le_call.ret = RemainingEdges

\* C4: try_from fails with InsufficientNumberOfEdges exactly when fewer than
\* 2 edges remain after the removal of consecutive identical edges; with 2
\* or more and all endpoints decoding it succeeds, in_edge the first and
\* out_edge the last of them.
TryFromInsufficient ==
    Constructed =>
        /\ (~longedge.ok /\ longedge.err = "InsufficientNumberOfEdges")
              <=> RemainingEdges < 2
        /\ (RemainingEdges >= 2 /\ AllEndpointsDecode) =>
              /\ longedge.ok
              /\ longedge.val[1].in_edge = h3edges[1]
              /\ longedge.val[1].out_edge = h3edges[Len(h3edges)]

\* a LongEdge was made of an input with a repeated edge in it
TryFromInsufficientWitness ==
    /\ Constructed
    /\ longedge.ok
    /\ Len(h3edges) = 3
    /\ RemainingEdges = 2
    /\ longedge.val[1].in_edge /= longedge.val[1].out_edge

\* the cells the path visits: the origin of the first edge and the
\* destination of every edge
VisitedCells == { h3edges[1][1] } \cup { h3edges[i][2] : i \in 1 .. Len(h3edges) }

\* C5: cell_lookup of a constructed LongEdge is the origin of the first edge
\* together with the destination of every edge, and is_disjoint(S) is true
\* exactly when S holds none of these cells.
CellLookupIsVisitedCells ==
    (Constructed /\ longedge.ok) =>
        /\ longedge.val[1].cell_lookup = VisitedCells
        /\ le_call.op = "is_disjoint" =>
              (le_call.ret <=> \A c \in le_call.arg : c \notin VisitedCells)

\* is_disjoint answered true for a set of cells off the path
CellLookupIsVisitedCellsWitness ==
    /\ Constructed /\ longedge.ok
    /\ le_call.op = "is_disjoint"
    /\ le_call.arg /= {}
    /\ le_call.ret = TRUE
    /\ Len(h3edges) >= 2

\* a path of edges in which every edge ends where the next one starts
Contiguous(path) ==
    \A i \in 1 .. Len(path) - 1 : path[i][2] = path[i + 1][1]

\* the input, read without its consecutive repetitions, is such a path
InputContiguous ==
    \A i \in 1 .. Len(h3edges) - 1 :
        h3edges[i] /= h3edges[i + 1] => h3edges[i][2] = h3edges[i + 1][1]

\* C11, as claimed: the edge path stored in every LongEdge that try_from
\* returns is one contiguous path, the destination of each edge being the
\* origin of the next.
EdgePathContiguous ==
    le_call.op = "h3edge_path" => Contiguous(le_call.ret.val[1])

\* C11, amended: try_from does not check the path. The edge path stored in
\* a LongEdge that try_from returns is contiguous exactly when the input,
\* read without its consecutive repetitions, is; origin_cell() is then the
\* origin of the first edge of the path and destination_cell() the
\* destination of its last.
EdgePathContiguousAsInput ==
    le_call.op = "h3edge_path" =>
        LET path == le_call.ret.val[1]
            self == longedge.val[1]
        IN  /\ Contiguous(path) <=> InputContiguous
            /\ InputContiguous =>
                  /\ LongEdge_origin_cell(self) = Ok(path[1][1])
                  /\ LongEdge_destination_cell(self) = Ok(path[Len(path)][2])
                  /\ self.in_edge = h3edges[1]
                  /\ self.out_edge = h3edges[Len(h3edges)]

\* the path of a LongEdge made of a continuous input with a repeated edge in
\* it has been read back
EdgePathContiguousAsInputWitness ==
    /\ le_call.op = "h3edge_path"
    /\ InputContiguous
    /\ Len(h3edges) = 3
    /\ RemainingEdges = 2
    /\ Len(le_call.ret.val[1]) = 2

(***************************************************************************)
(* Packed Hilbert R-tree:                                                  *)
(* h3ron-polars/src/spatial_index/packed_hilbert_rtree.rs                  *)
(*                                                                         *)
(* A row of the column is null, a value that is no valid index, a valid    *)
(* index that has no rect, or one of the cells. The geometry of the cells  *)
(* is an input: cell c has the bounding rect CellRect(c), and the rects of *)
(* neighbouring cells touch. StaticAABB2DIndex is the crate                *)
(* static_aabb2d_index; it is modelled by what it answers: the positions   *)
(* of the boxes in the order they were added.                              *)
(***************************************************************************)
MaxLen == 3
MaxDistance == 2

Rows == { [kind |-> "null", cell |-> 0],
          [kind |-> "invalid", cell |-> 0],
          [kind |-> "norect", cell |-> 0] }
        \cup { [kind |-> "cell", cell |-> c] : c \in Cells }

\* the bounding rect of a cell
CellRect(c) ==
    Rect_new(Coordinate(c - 1, (c - 1) % 2), Coordinate(c, ((c - 1) % 2) + 1))

XCoords == 0 .. NumCells
YCoords == 0 .. 2
Coords == { Coordinate(x, y) : x \in XCoords, y \in YCoords }
Rects == { Rect_new(a, b) : a \in Coords, b \in Coords }
Distances == -1 .. MaxDistance

\* IndexChunked::iter_indexes_validated: Option<Result<IX, Error>> per row
iter_indexes_validated(row) ==
    IF row.kind = "null" THEN None
    ELSE IF row.kind = "invalid" THEN Some(Err("InvalidH3Index"))
    ELSE Some(Ok(row))

\* RectIndexable::spatial_index_rect: Result<Option<Rect>, Error>
spatial_index_rect(index) ==
    IF index.kind = "cell" THEN Ok(Some(CellRect(index.cell))) ELSE Ok(None)

\* StaticAABB2DIndexBuilder: add, in this order, then build
StaticAABB2DIndex_build(rects) == Ok([boxes |-> rects])

\* StaticAABB2DIndex::query: the positions (from 0) of the boxes that are not
\* strictly apart from the query box on either axis
StaticAABB2DIndex_query(index, min_x, min_y, max_x, max_y) ==
    { i \in 0 .. Len(index.boxes) - 1 :
        LET b == index.boxes[i + 1]
        IN  ~(max_x < b.min.x \/ max_y < b.min.y \/ min_x > b.max.x \/ min_y > b.max.y) }

\* the squared distance StaticAABB2DIndex::visit_neighbors hands to the visitor
AxisDist(k, min, max) == IF k < min THEN min - k ELSE IF k <= max THEN 0 ELSE k - max
DistSquared(index, i, x, y) ==
    LET b == index.boxes[i + 1]
        dx == AxisDist(x, b.min.x, b.max.x)
        dy == AxisDist(y, b.min.y, b.max.y)
    IN  dx * dx + dy * dy

\* the orders in which visit_neighbors may visit the boxes: every order of
\* all positions by non-decreasing distance to (x, y)
VisitOrders(index, x, y) ==
    LET n == Len(index.boxes)
    IN  { o \in [1 .. n -> 0 .. n - 1] :
            /\ \A i, j \in 1 .. n : i /= j => o[i] /= o[j]
            /\ \A i \in 1 .. n - 1 :
                  DistSquared(index, o[i], x, y) <= DistSquared(index, o[i + 1], x, y) }

\* line 149, as if `<` had been written for `<=`
Visitor_visit_strict(self, index_pos, dist_squared) ==
    IF dist_squared < self.distance
    THEN <<[self EXCEPT !.found = Append(self.found, index_pos)], Ok(<<>>)>>
    ELSE <<self, Err(<<>>)>>

\* Visitor::visit: the visitor after the call, and what the call returns
Visitor_visit(self, index_pos, dist_squared) ==
    IF dist_squared <= self.distance
    THEN <<[self EXCEPT !.found = Append(self.found, index_pos)], Ok(<<>>)>>
    ELSE <<self, Err(<<>>)>>

\* StaticAABB2DIndex::visit_neighbors: the boxes are visited in `order`
\* until the visitor returns Err; yields the visitor as it is then
RECURSIVE visit_neighbors(_, _, _, _, _)
visit_neighbors(index, x, y, visitor, order) ==
    IF order = <<>> THEN visitor
    ELSE LET r == Visitor_visit(visitor, Head(order),
                                DistSquared(index, Head(order), x, y))
         IN  IF r[2].ok THEN visit_neighbors(index, x, y, r[1], Tail(order))
             ELSE r[1]

\* negative_mask: a bitmap of the length of the column, nothing set
negative_mask(ca) == [r \in 0 .. Len(ca) - 1 |-> FALSE]

\* MutableBitmap::set
Bitmap_set(bitmap, i, v) == [bitmap EXCEPT ![i] = v]

\* finish_mask: the bitmap as a BooleanChunked aligned with the column
finish_mask(bitmap, ic) == [i \in 1 .. Len(ic) |-> bitmap[i - 1]]

\* the fold of packed_hilbert_rtree_index over the rows from pos on
RECURSIVE ValidatedFold(_, _, _, _)
ValidatedFold(ca, pos, positions, rects) ==
    IF pos >= Len(ca) THEN <<positions, rects>>
    ELSE LET maybe_index == iter_indexes_validated(ca[pos + 1])
             has_rect ==
                 /\ IsSome(maybe_index) /\ Unwrap(maybe_index).ok
                 /\ spatial_index_rect(Unwrap(maybe_index).val[1]).ok
                 /\ IsSome(spatial_index_rect(Unwrap(maybe_index).val[1]).val[1])
         IN  IF has_rect
             THEN ValidatedFold(ca, pos + 1, Append(positions, pos),
                      Append(rects,
                             Unwrap(spatial_index_rect(Unwrap(maybe_index).val[1]).val[1])))
             ELSE ValidatedFold(ca, pos + 1, positions, rects)

packed_hilbert_rtree_index(ca) ==
    LET folded == ValidatedFold(ca, 0, <<>>, <<>>)
        positions_in_chunked_array == folded[1]
        rects == folded[2]
        built == StaticAABB2DIndex_build(rects)
    IN  IF positions_in_chunked_array /= <<>> /\ ~built.ok
        THEN Err("SpatialIndex")
        ELSE Ok([index |-> IF positions_in_chunked_array /= <<>>
                           THEN Some(built.val[1]) ELSE None,
                 chunked_array |-> ca,
                 positions_in_chunked_array |-> positions_in_chunked_array])

\* line 104, as if the position in the index were the row
UntranslatedPosition(self, index_position) == index_position

\* self.positions_in_chunked_array[index_position]
PositionInChunkedArray(self, index_position) ==
    self.positions_in_chunked_array[index_position + 1]

\* the loops of lines 101-105 and 120-122: every found position is set
RECURSIVE SetAll(_, _, _)
SetAll(self, bitmap, found) ==
    IF found = {} THEN bitmap
    ELSE LET index_position == CHOOSE i \in found : TRUE
         IN  SetAll(self,
                    Bitmap_set(bitmap, PositionInChunkedArray(self, index_position), TRUE),
                    found \ {index_position})

envelopes_intersect_impl(self, rect) ==
    LET bitmap == negative_mask(self.chunked_array)
    IN  IF IsSome(self.index)
        THEN SetAll(self, bitmap,
                    StaticAABB2DIndex_query(Unwrap(self.index), rect.min.x, rect.min.y,
                                            rect.max.x, rect.max.y))
        ELSE bitmap

\* `order` is the order in which the index visits its boxes
envelopes_within_distance(self, coord, distance, order) ==
    LET bitmap == negative_mask(self.chunked_array)
        visitor == [found |-> <<>>, distance |-> distance]
    IN  IF IsSome(self.index)
        THEN LET visited == visit_neighbors(Unwrap(self.index), coord.x, coord.y,
                                            visitor, order)
             IN  finish_mask(SetAll(self, bitmap,
                                    { visited.found[i] : i \in 1 .. Len(visited.found) }),
                             self.chunked_array)
        ELSE finish_mask(bitmap, self.chunked_array)

InitIdx ==
    /\ \E n \in 0 .. MaxLen : chunked_array \in [1 .. n -> Rows]
    /\ rtree = Err("none")
    /\ query = [kind |-> "none"]
    /\ mask = <<>>
    /\ pcIdx = "ready"
    /\ BoxesIdle /\ ResIdle /\ LEIdle

BuildIndex ==
    /\ pcIdx = "ready"
    /\ rtree' = packed_hilbert_rtree_index(chunked_array)
    /\ pcIdx' = "built"
    /\ UNCHANGED <<chunked_array, query, mask, boxVars, resVars, leVars>>

EnvelopesIntersect(rect) ==
    /\ pcIdx = "built" /\ rtree.ok
    /\ pcIdx' = "queried"
    /\ query' = [kind |-> "intersect", rect |-> rect]
    /\ mask' = envelopes_intersect_impl(rtree.val[1], rect)
    /\ UNCHANGED <<chunked_array, rtree, boxVars, resVars, leVars>>

EnvelopesWithinDistance(coord, distance) ==
    /\ pcIdx = "built" /\ rtree.ok
    /\ pcIdx' = "queried"
    /\ query' = [kind |-> "distance", coord |-> coord, distance |-> distance]
    /\ \E order \in IF IsSome(rtree.val[1].index)
                    THEN VisitOrders(Unwrap(rtree.val[1].index), coord.x, coord.y)
                    ELSE { <<>> } :
          mask' = envelopes_within_distance(rtree.val[1], coord, distance, order)
    /\ UNCHANGED <<chunked_array, rtree, boxVars, resVars, leVars>>

\* A query reads the index alone and leaves it as it is: what a query answers
\* does not depend on the queries before it, so each run makes one.
NextIdx ==
    \/ BuildIndex
    \/ \E rect \in Rects : EnvelopesIntersect(rect)
    \/ \E coord \in Coords, distance \in Distances :
          EnvelopesWithinDistance(coord, distance)

SpecIdx == InitIdx /\ [][NextIdx]_vars

\* the rows of the column, counted from 0, and those that were indexed
ColumnRows == 0 .. Len(chunked_array) - 1
Indexed(r) == chunked_array[r + 1].kind = "cell"
RectOfRow(r) == CellRect(chunked_array[r + 1].cell)

\* the points of a rect, and the rects that share a point
PointsOf(rect) ==
    { Coordinate(x, y) : x \in rect.min.x .. rect.max.x, y \in rect.min.y .. rect.max.y }
SharePoint(r1, r2) == PointsOf(r1) \cap PointsOf(r2) /= {}

\* C2: the mask of a range query has the length of the column and is true at
\* row r exactly when row r was indexed and its rect intersects the query
\* rect; no skipped row is set and no indexed row is misaligned.
IntersectMaskAligned ==
    query.kind = "intersect" =>
        /\ DOMAIN mask = ColumnRows
        /\ \A r \in ColumnRows :
              mask[r] <=> (Indexed(r) /\ SharePoint(RectOfRow(r), query.rect))

\* a range query hit a row that comes after a skipped row, and missed an
\* indexed row
IntersectMaskAlignedWitness ==
    /\ query.kind = "intersect"
    /\ \E r1, r2, r3 \in ColumnRows :
          /\ r1 < r2
          /\ ~Indexed(r1) /\ Indexed(r2) /\ mask[r2]
          /\ Indexed(r3) /\ ~mask[r3]

\* the squared distance of a point to the nearest point of a rect
SquaredDistance(p, rect) ==
    LET ds == { (p.x - q.x) * (p.x - q.x) + (p.y - q.y) * (p.y - q.y) :
                    q \in PointsOf(rect) }
    IN  CHOOSE d \in ds : \A e \in ds : d <= e

\* C9: the mask of a distance query has the length of the column and is true
\* at row r exactly when row r was indexed and the squared distance of the
\* point to its rect is <= the distance given.
DistanceMaskAligned ==
    query.kind = "distance" =>
        /\ Len(mask) = Len(chunked_array)
        /\ \A r \in ColumnRows :
              mask[r + 1] <=>
                  (Indexed(r) /\ SquaredDistance(query.coord, RectOfRow(r)) <= query.distance)

\* a distance query found a row at the very distance given, after a skipped
\* row, and stopped before another indexed row
DistanceMaskAlignedWitness ==
    /\ query.kind = "distance"
    /\ query.distance > 0
    /\ \E r1, r2, r3 \in ColumnRows :
          /\ r1 < r2
          /\ ~Indexed(r1) /\ Indexed(r2) /\ mask[r2 + 1]
          /\ SquaredDistance(query.coord, RectOfRow(r2)) = query.distance
          /\ Indexed(r3) /\ ~mask[r3 + 1]

====
